---------------------------- MODULE Spec2Model ----------------------------
(***************************************************************************)
(* Local Mapping of SD-SLAM (src/src/LocalMapping.cc).                     *)
(*                                                                         *)
(* Spec     : the control surface. The worker thread (Run) is cut at every *)
(*            critical section; the tracker's calls (InsertKeyFrame,       *)
(*            SetNotStop, InterruptBA) are single critical sections; the   *)
(*            controlling thread's calls (RequestStop, Release,            *)
(*            RequestReset, RequestFinish) are cut where they take a       *)
(*            second lock or touch the queue without its lock.             *)
(* LiveSpec : Spec with fairness of the two threads.                       *)
(* SpecMap  : the map graph. One worker takes keyframes built by the       *)
(*            tracker through ProcessNewKeyFrame, MapPointCulling,         *)
(*            CreateNewMapPoints and SearchInNeighbors; the request flags  *)
(*            stay as constructed. KeyFrame, MapPoint and Map are not part *)
(*            of the sources at hand: their operations follow spec.md.     *)
(***************************************************************************)
EXTENDS Integers, Sequences, FiniteSets, TLC

\* ------------------------------------------------------------------ bounds
\* keyframes the tracker creates in a run (ids 0 .. MaxKF-1)
MaxKF == 3
\* keyframes the tracker creates in LiveSpecStop
MaxLiveKF == 2
\* The maps drawn as input of a single stage are larger than the ones a run
\* builds: keyframes of a drawn map (ids 0 .. MaxMapKF-1)
MaxMapKF == 6
\* length of the recent-added list
MaxRecent == 1
\* covisible neighbours visited by one triangulation pass
MaxNeigh == 2

\* feature slots of a keyframe
MaxSlot == 2
\* map points ever created
MaxMP == 2
\* map points of a drawn map
MaxMapMP == 11

NullKF == -1
KFIds == 0 .. (MaxKF - 1)
MapKFIds == 0 .. (MaxMapKF - 1)
MapMPIds == 0 .. (MaxMapMP - 1)
NoMP == -1
MPIds == 0 .. (MaxMP - 1)
NoSlot == -1
Slots == 0 .. (MaxSlot - 1)

VARIABLES
  pc,                       \* position of the worker thread inside Run
  cpc,                      \* position of the controlling thread
  mlNewKeyFrames,           \* incoming keyframe queue
  mlpRecentAddedMapPoints,  \* recent-added map points
  mpCurrentKeyFrame,        \* keyframe being processed
  nNextId,                  \* id of the next keyframe the tracker creates
  mbResetRequested, mbFinishRequested, mbFinished, mbAbortBA,
  mbStopped, mbStopRequested, mbNotStop, mbAcceptKeyFrames,
  vpNeighKFs,               \* CreateNewMapPoints: the neighbours
  iNeigh,                   \* CreateNewMapPoints: loop index
  nLastDequeued,            \* history: id of the last keyframe taken from the queue
  lastOp,                   \* history: <<operation, returned value>> of the last step
  nLocalBA,                 \* history: local bundle adjustments since the last ProcessNewKeyFrame
  mlpLoopKeyFrameQueue,     \* keyframes handed to the loop closer, oldest first
  mbMonocular,              \* sensor configuration
  nBuiltKFs,                \* keyframes the tracker has built
  kfMapPoints,              \* KeyFrame::mvpMapPoints: keyframe -> slot -> map point
  mpObservations,           \* MapPoint::mObservations: map point -> keyframe -> slot
  mpBad,                    \* MapPoint::mbBad
  mpFirstKFid,              \* MapPoint::mnFirstKFid
  mpFoundRatio,             \* MapPoint: <<mnFound, mnVisible>> as MapPointCulling last read them
  nNextMP,                  \* id of the next map point created
  kfConnections,            \* KeyFrame::mConnectedKeyFrameWeights
  kfBad,                    \* KeyFrame::mbBad
  kfOctave,                 \* KeyFrame::mvKeysUn[i].octave: keyframe -> slot -> octave
  kfDepth,                  \* KeyFrame::mvDepth: keyframe -> slot -> depth
  mspKeyFrames              \* Map: keyframes inserted

flags == <<mbResetRequested, mbFinishRequested, mbFinished, mbAbortBA,
           mbStopped, mbStopRequested, mbNotStop, mbAcceptKeyFrames>>
stopFlags == <<mbStopped, mbStopRequested, mbNotStop>>
queueVars == <<mlNewKeyFrames, nNextId>>
loopVars == <<vpNeighKFs, iNeigh>>
featVars == <<kfOctave, kfDepth>>
mapVars == <<mbMonocular, nBuiltKFs, kfMapPoints, mpObservations, mpBad, mpFirstKFid,
             mpFoundRatio, nNextMP, kfConnections, mspKeyFrames, kfBad, featVars>>
vars == <<pc, cpc, mlNewKeyFrames, mlpRecentAddedMapPoints, mpCurrentKeyFrame,
          nNextId, flags, loopVars, nLastDequeued, lastOp, nLocalBA,
          mlpLoopKeyFrameQueue, mapVars>>

\* ------------------------------------------------------------------- locks
\* Owner of each mutex, read off the positions of the two threads that hold
\* a lock across more than one step.
mMutexStop ==
  IF cpc \in {"RequestStop_abort", "Release_lockFinish", "Release_clear", "Release_return"}
  THEN "ctl" ELSE "free"

mMutexFinish ==
  IF pc = "SetFinish_lockStop" THEN "worker"
  ELSE IF cpc \in {"Release_clear", "Release_return"} THEN "ctl" ELSE "free"

mMutexReset ==
  IF pc \in {"Reset_clearRecent", "Reset_clearFlag"} THEN "worker" ELSE "free"

\* A step of the control surface: it leaves the map graph alone.
Did(name, r) ==
  lastOp' = <<name, r>> /\ UNCHANGED <<mapVars, nLocalBA, mlpLoopKeyFrameQueue>>

\* -------------------------------------------------------------- constructor
EmptyMap ==
  /\ nBuiltKFs = 0
  /\ kfMapPoints = [k \in KFIds |-> [i \in Slots |-> NoMP]]
  /\ mpObservations = [p \in MPIds |-> [k \in KFIds |-> NoSlot]]
  /\ mpBad = [p \in MPIds |-> FALSE]
  /\ mpFirstKFid = [p \in MPIds |-> NullKF]
  /\ mpFoundRatio = [p \in MPIds |-> <<1, 1>>]
  /\ nNextMP = 0
  /\ kfConnections = [k \in KFIds |-> [k2 \in KFIds |-> 0]]
  /\ kfBad = [k \in KFIds |-> FALSE]
  /\ kfOctave = [k \in KFIds |-> [i \in Slots |-> 0]]
  /\ kfDepth = [k \in KFIds |-> [i \in Slots |-> 0]]
  /\ mspKeyFrames = {}

InitControl ==
  /\ pc = "Run_start"
  /\ cpc = "idle"
  /\ mlNewKeyFrames = <<>>
  /\ mlpRecentAddedMapPoints = <<>>
  /\ mpCurrentKeyFrame = NullKF
  /\ nNextId = 0
  /\ mbResetRequested = FALSE
  /\ mbFinishRequested = FALSE
  /\ mbFinished = TRUE
  /\ mbAbortBA = FALSE
  /\ mbStopped = FALSE
  /\ mbStopRequested = FALSE
  /\ mbNotStop = FALSE
  /\ mbAcceptKeyFrames = TRUE
  /\ vpNeighKFs = <<>>
  /\ iNeigh = 0
  /\ nLastDequeued = NullKF
  /\ lastOp = <<"LocalMapping", FALSE>>
  /\ nLocalBA = 0
  /\ mlpLoopKeyFrameQueue = <<>>

Init ==
  /\ mbMonocular = FALSE
  /\ EmptyMap
  /\ InitControl

\* ------------------------------------------------------- std::list helpers
push_front(l, x) == <<x>> \o l

push_back(l, x) == Append(l, x)

\* ------------------------------------------------------------ tracker calls
\* Each is one critical section, so one step.
InsertKeyFrame_NoAbort(pKF) ==
  /\ mlNewKeyFrames' = push_back(mlNewKeyFrames, pKF)
  /\ Did("InsertKeyFrame", FALSE)
  /\ UNCHANGED <<pc, cpc, mlpRecentAddedMapPoints, mpCurrentKeyFrame, flags,
                 loopVars, nLastDequeued>>

InsertKeyFrame(pKF) ==
  /\ mlNewKeyFrames' = push_back(mlNewKeyFrames, pKF)
  /\ mbAbortBA' = TRUE
  /\ Did("InsertKeyFrame", FALSE)
  /\ UNCHANGED <<pc, cpc, mlpRecentAddedMapPoints, mpCurrentKeyFrame,
                 mbResetRequested, mbFinishRequested, mbFinished, stopFlags,
                 mbAcceptKeyFrames, loopVars, nLastDequeued>>

\* The tracker creates keyframes with increasing ids and hands each to the mapper.
CreateNewKeyFrame ==
  /\ nNextId < MaxKF
  /\ InsertKeyFrame(nNextId)
  /\ nNextId' = nNextId + 1

SetNotStop_refuses_Never(flag) == FALSE

SetNotStop_refuses(flag) == flag /\ mbStopped

SetNotStop(flag) ==
  /\ mMutexStop = "free"
  /\ IF SetNotStop_refuses(flag)
     THEN /\ Did("SetNotStop", FALSE)
          /\ UNCHANGED mbNotStop
     ELSE /\ mbNotStop' = flag
          /\ Did("SetNotStop", TRUE)
  /\ UNCHANGED <<pc, cpc, queueVars, mlpRecentAddedMapPoints, mpCurrentKeyFrame,
                 mbResetRequested, mbFinishRequested, mbFinished, mbAbortBA,
                 mbStopped, mbStopRequested, mbAcceptKeyFrames, loopVars,
                 nLastDequeued>>

InterruptBA ==
  /\ mbAbortBA' = TRUE
  /\ Did("InterruptBA", FALSE)
  /\ UNCHANGED <<pc, cpc, queueVars, mlpRecentAddedMapPoints, mpCurrentKeyFrame,
                 mbResetRequested, mbFinishRequested, mbFinished, stopFlags,
                 mbAcceptKeyFrames, loopVars, nLastDequeued>>

\* ------------------------------------------------ controlling thread calls
workerVars == <<pc, mlpRecentAddedMapPoints, mpCurrentKeyFrame, loopVars, nLastDequeued>>

\* RequestStop: takes mMutexStop, sets the request ...
RequestStop_request ==
  /\ cpc = "idle"
  /\ mMutexStop = "free"
  /\ mbStopRequested' = TRUE
  /\ cpc' = "RequestStop_abort"
  /\ Did("RequestStop", FALSE)
  /\ UNCHANGED <<workerVars, queueVars, mbResetRequested, mbFinishRequested,
                 mbFinished, mbAbortBA, mbStopped, mbNotStop, mbAcceptKeyFrames>>

\* ... then takes mMutexNewKFs inside it and sets the abort flag.
RequestStop_abort ==
  /\ cpc = "RequestStop_abort"
  /\ mbAbortBA' = TRUE
  /\ cpc' = "idle"
  /\ Did("RequestStop", TRUE)
  /\ UNCHANGED <<workerVars, queueVars, mbResetRequested, mbFinishRequested,
                 mbFinished, stopFlags, mbAcceptKeyFrames>>

\* Release: takes mMutexStop ...
Release_lockStop ==
  /\ cpc = "idle"
  /\ mMutexStop = "free"
  /\ cpc' = "Release_lockFinish"
  /\ Did("Release_lock", FALSE)
  /\ UNCHANGED <<workerVars, queueVars, flags>>

Release_returnsEarly_Never == FALSE

Release_returnsEarly == mbFinished

\* ... then mMutexFinish inside it; returns at once when finished, else clears
\* the two stop flags ...
Release_lockFinish ==
  /\ cpc = "Release_lockFinish"
  /\ mMutexFinish = "free"
  /\ IF Release_returnsEarly
     THEN /\ cpc' = "idle"
          /\ Did("Release", FALSE)
          /\ UNCHANGED <<mbStopped, mbStopRequested>>
     ELSE /\ mbStopped' = FALSE
          /\ mbStopRequested' = FALSE
          /\ cpc' = "Release_clear"
          /\ Did("Release_flags", FALSE)
  /\ UNCHANGED <<workerVars, queueVars, mbResetRequested, mbFinishRequested,
                 mbFinished, mbAbortBA, mbNotStop, mbAcceptKeyFrames>>

Release_queue_Kept == mlNewKeyFrames

Release_queue == <<>>

\* ... deletes and drops the pending keyframes (mMutexNewKFs is not taken) ...
Release_clear ==
  /\ cpc = "Release_clear"
  /\ mlNewKeyFrames' = Release_queue
  /\ cpc' = "Release_return"
  /\ Did("Release_clear", FALSE)
  /\ UNCHANGED <<workerVars, nNextId, flags>>

\* ... and returns, releasing both locks.
Release_return ==
  /\ cpc = "Release_return"
  /\ cpc' = "idle"
  /\ Did("Release", TRUE)
  /\ UNCHANGED <<workerVars, queueVars, flags>>

\* RequestReset: sets the request under mMutexReset ...
RequestReset_request ==
  /\ cpc = "idle"
  /\ mMutexReset = "free"
  /\ mbResetRequested' = TRUE
  /\ cpc' = "RequestReset_wait"
  /\ Did("RequestReset_request", FALSE)
  /\ UNCHANGED <<workerVars, queueVars, mbFinishRequested, mbFinished, mbAbortBA,
                 stopFlags, mbAcceptKeyFrames>>

\* ... and polls it every 3 ms until the worker has cleared it.
RequestReset_return ==
  /\ cpc = "RequestReset_wait"
  /\ mMutexReset = "free"
  /\ ~mbResetRequested
  /\ cpc' = "idle"
  /\ Did("RequestReset", TRUE)
  /\ UNCHANGED <<workerVars, queueVars, flags>>

RequestFinish ==
  /\ cpc = "idle"
  /\ mMutexFinish = "free"
  /\ mbFinishRequested' = TRUE
  /\ Did("RequestFinish", FALSE)
  /\ UNCHANGED <<workerVars, cpc, queueVars, mbResetRequested, mbFinished, mbAbortBA,
                 stopFlags, mbAcceptKeyFrames>>

\* ------------------------------------------------------------ worker: Run
ctlVars == <<cpc, nNextId>>

\* In Spec the map points and the neighbours are not told apart: every entry of
\* the recent-added list is the token AnyMP, every neighbour AnyKF, and the
\* stages add or remove any number of them.
AnyMP == 0

AnyKF == 0

Points(n) == [i \in 1 .. n |-> AnyMP]

Run_start ==
  /\ pc = "Run_start"
  /\ mbFinished' = FALSE
  /\ pc' = "SetAcceptFalse"
  /\ Did("Run", FALSE)
  /\ UNCHANGED <<ctlVars, mlNewKeyFrames, mlpRecentAddedMapPoints, mpCurrentKeyFrame,
                 mbResetRequested, mbFinishRequested, mbAbortBA, stopFlags,
                 mbAcceptKeyFrames, loopVars, nLastDequeued>>

\* A worker step that only moves on (its reads decide where to).
Goto(from, to, name, r) ==
  /\ pc = from
  /\ pc' = to
  /\ Did(name, r)
  /\ UNCHANGED <<ctlVars, mlNewKeyFrames, mlpRecentAddedMapPoints, mpCurrentKeyFrame,
                 flags, loopVars, nLastDequeued>>

SetAcceptKeyFrames(from, to, flag) ==
  /\ pc = from
  /\ mbAcceptKeyFrames' = flag
  /\ pc' = to
  /\ Did("SetAcceptKeyFrames", flag)
  /\ UNCHANGED <<ctlVars, mlNewKeyFrames, mlpRecentAddedMapPoints, mpCurrentKeyFrame,
                 mbResetRequested, mbFinishRequested, mbFinished, mbAbortBA, stopFlags,
                 loopVars, nLastDequeued>>

Run_SetAcceptFalse_Open == SetAcceptKeyFrames("SetAcceptFalse", "CheckNewKeyFrames", TRUE)

Run_SetAcceptFalse == SetAcceptKeyFrames("SetAcceptFalse", "CheckNewKeyFrames", FALSE)

CheckNewKeyFrames == mlNewKeyFrames # <<>>

Run_CheckNewKeyFrames ==
  IF CheckNewKeyFrames
  THEN Goto("CheckNewKeyFrames", "ProcessNewKeyFrame", "CheckNewKeyFrames", TRUE)
  ELSE Goto("CheckNewKeyFrames", "Stop", "CheckNewKeyFrames", FALSE)

front(l) == Head(l)

pop_front(l) == Tail(l)

\* ProcessNewKeyFrame: takes the oldest keyframe; the tracker's fresh stereo
\* points found in it go to the recent-added list; the keyframe enters the map
\* (mpMap->AddKeyFrame inserts the pointer it is given). front() and pop_front() of an
\* empty list are undefined: the worker crashes, or goes on with whatever
\* pointer it read.
Run_ProcessNewKeyFrame ==
  /\ pc = "ProcessNewKeyFrame"
  /\ IF mlNewKeyFrames # <<>>
     THEN /\ mpCurrentKeyFrame' = front(mlNewKeyFrames)
          /\ mlNewKeyFrames' = pop_front(mlNewKeyFrames)
          /\ nLastDequeued' = mpCurrentKeyFrame'
          /\ \E n \in 0 .. (MaxRecent - Len(mlpRecentAddedMapPoints)) :
               mlpRecentAddedMapPoints' = mlpRecentAddedMapPoints \o Points(n)
          /\ pc' = "MapPointCulling"
          /\ mspKeyFrames' = mspKeyFrames \cup {mpCurrentKeyFrame'}
          /\ lastOp' = <<"ProcessNewKeyFrame", TRUE>>
     ELSE /\ UNCHANGED <<mlNewKeyFrames, mlpRecentAddedMapPoints, nLastDequeued>>
          /\ \/ /\ pc' = "crashed"
                /\ UNCHANGED <<mpCurrentKeyFrame, mspKeyFrames>>
             \/ /\ pc' = "MapPointCulling"
                /\ mpCurrentKeyFrame' \in KFIds \cup {NullKF}
                /\ mspKeyFrames' = mspKeyFrames \cup {mpCurrentKeyFrame'}
          /\ lastOp' = <<"ProcessNewKeyFrame", FALSE>>
  /\ nLocalBA' = 0
  /\ UNCHANGED mlpLoopKeyFrameQueue
  /\ UNCHANGED <<mpFoundRatio, kfBad, featVars>>
  /\ UNCHANGED <<ctlVars, flags, loopVars, mbMonocular, nBuiltKFs, kfMapPoints,
                 mpObservations, mpBad, mpFirstKFid, nNextMP, kfConnections>>

\* MapPointCulling erases some of the recent-added points.
Run_MapPointCulling ==
  /\ pc = "MapPointCulling"
  /\ \E n \in 0 .. Len(mlpRecentAddedMapPoints) :
       mlpRecentAddedMapPoints' = Points(n)
  /\ pc' = "CreateNewMapPoints"
  /\ Did("MapPointCulling", FALSE)
  /\ UNCHANGED <<ctlVars, mlNewKeyFrames, mpCurrentKeyFrame, flags, loopVars,
                 nLastDequeued>>

\* CreateNewMapPoints: fetches the neighbours ...
Run_CreateNewMapPoints ==
  /\ pc = "CreateNewMapPoints"
  /\ \E n \in 0 .. MaxNeigh : vpNeighKFs' = [i \in 1 .. n |-> AnyKF]
  /\ iNeigh' = 0
  /\ pc' = "CreateNewMapPoints_loop"
  /\ Did("CreateNewMapPoints", FALSE)
  /\ UNCHANGED <<ctlVars, mlNewKeyFrames, mlpRecentAddedMapPoints, mpCurrentKeyFrame,
                 flags, nLastDequeued>>

CreateNewMapPoints_aborts_Never == FALSE

\* if (i > 0 && CheckNewKeyFrames()) return;
CreateNewMapPoints_aborts == iNeigh > 0 /\ CheckNewKeyFrames

\* ... and triangulates against one after the other, returning when a keyframe
\* is waiting before any neighbour but the first.
Run_CreateNewMapPoints_loop ==
  /\ pc = "CreateNewMapPoints_loop"
  /\ IF iNeigh >= Len(vpNeighKFs) \/ CreateNewMapPoints_aborts
     THEN /\ pc' = "CheckNewKeyFrames2"
          /\ vpNeighKFs' = <<>>
          /\ iNeigh' = 0
          /\ Did("CreateNewMapPoints", iNeigh < Len(vpNeighKFs))
          /\ UNCHANGED mlpRecentAddedMapPoints
     ELSE /\ \E n \in 0 .. (MaxRecent - Len(mlpRecentAddedMapPoints)) :
               mlpRecentAddedMapPoints' = mlpRecentAddedMapPoints \o Points(n)
          /\ iNeigh' = iNeigh + 1
          /\ pc' = pc
          /\ Did("CreateNewMapPoints_neighbour", FALSE)
          /\ UNCHANGED vpNeighKFs
  /\ UNCHANGED <<ctlVars, mlNewKeyFrames, mpCurrentKeyFrame, flags, nLastDequeued>>

Run_CheckNewKeyFrames2 ==
  IF CheckNewKeyFrames
  THEN Goto("CheckNewKeyFrames2", "ClearAbortBA", "CheckNewKeyFrames", TRUE)
  ELSE Goto("CheckNewKeyFrames2", "SearchInNeighbors", "CheckNewKeyFrames", FALSE)

\* SearchInNeighbors has no test of the queue in its loops.
SearchInNeighbors_aborts == FALSE

\* SearchInNeighbors: collects the target keyframes ...
Run_SearchInNeighbors ==
  /\ pc = "SearchInNeighbors"
  /\ \E n \in 0 .. MaxNeigh : vpNeighKFs' = [i \in 1 .. n |-> AnyKF]
  /\ iNeigh' = 0
  /\ pc' = "SearchInNeighbors_loop"
  /\ Did("SearchInNeighbors_targets", FALSE)
  /\ UNCHANGED <<ctlVars, mlNewKeyFrames, mlpRecentAddedMapPoints, mpCurrentKeyFrame,
                 flags, nLastDequeued>>

\* ... fuses the current keyframe's points into one target after the other, and
\* after the last fuses the targets' points into the current keyframe and
\* updates its connections.
Run_SearchInNeighbors_loop ==
  /\ pc = "SearchInNeighbors_loop"
  /\ IF iNeigh >= Len(vpNeighKFs) \/ SearchInNeighbors_aborts
     THEN /\ pc' = "ClearAbortBA"
          /\ vpNeighKFs' = <<>>
          /\ iNeigh' = 0
          /\ Did("SearchInNeighbors", iNeigh < Len(vpNeighKFs))
     ELSE /\ iNeigh' = iNeigh + 1
          /\ pc' = pc
          /\ Did("SearchInNeighbors_target", FALSE)
          /\ UNCHANGED vpNeighKFs
  /\ UNCHANGED <<ctlVars, mlNewKeyFrames, mlpRecentAddedMapPoints, mpCurrentKeyFrame,
                 flags, nLastDequeued>>

\* mbAbortBA = false, written without a lock.
Run_ClearAbortBA ==
  /\ pc = "ClearAbortBA"
  /\ mbAbortBA' = FALSE
  /\ pc' = "CheckNewKeyFrames3"
  /\ Did("ClearAbortBA", FALSE)
  /\ UNCHANGED <<ctlVars, mlNewKeyFrames, mlpRecentAddedMapPoints, mpCurrentKeyFrame,
                 mbResetRequested, mbFinishRequested, mbFinished, stopFlags,
                 mbAcceptKeyFrames, loopVars, nLastDequeued>>

Run_CheckNewKeyFrames3 ==
  IF CheckNewKeyFrames
  THEN Goto("CheckNewKeyFrames3", "Handoff", "CheckNewKeyFrames", TRUE)
  ELSE Goto("CheckNewKeyFrames3", "stopRequested", "CheckNewKeyFrames", FALSE)

Run_stopRequested ==
  /\ mMutexStop = "free"
  /\ IF mbStopRequested
     THEN Goto("stopRequested", "Handoff", "stopRequested", TRUE)
     ELSE Goto("stopRequested", "LocalBA", "stopRequested", FALSE)

KeyFramesInMap == Cardinality(mspKeyFrames)

LocalBA_guard_Always == TRUE

LocalBA_guard == KeyFramesInMap > 2

\* if (mpMap->KeyFramesInMap() > 2) Optimizer::LocalBundleAdjustment(...)
Run_LocalBundleAdjustment ==
  /\ pc = "LocalBA"
  /\ pc' = "KeyFrameCulling"
  /\ IF LocalBA_guard
     THEN /\ lastOp' = <<"LocalBundleAdjustment", mbAbortBA>>
          /\ nLocalBA' = IF nLocalBA < 2 THEN nLocalBA + 1 ELSE nLocalBA
     ELSE /\ lastOp' = <<"KeyFramesInMap", FALSE>>
          /\ UNCHANGED nLocalBA
  /\ UNCHANGED <<ctlVars, mlNewKeyFrames, mlpRecentAddedMapPoints, mpCurrentKeyFrame,
                 flags, loopVars, nLastDequeued, mlpLoopKeyFrameQueue, mapVars>>

Run_KeyFrameCulling ==
  Goto("KeyFrameCulling", "Handoff", "KeyFrameCulling", FALSE)

\* mpLoopCloser->InsertKeyFrame(mpCurrentKeyFrame), the loop closer attached
Run_Handoff ==
  /\ pc = "Handoff"
  /\ mlpLoopKeyFrameQueue' = push_back(mlpLoopKeyFrameQueue, mpCurrentKeyFrame)
  /\ pc' = "ResetIfRequested"
  /\ lastOp' = <<"Handoff", FALSE>>
  /\ UNCHANGED <<ctlVars, mlNewKeyFrames, mlpRecentAddedMapPoints, mpCurrentKeyFrame,
                 flags, loopVars, nLastDequeued, nLocalBA, mapVars>>

Stop_honours_IgnoringNotStop == mbStopRequested

Stop_honours_Never == FALSE

Stop_honours == mbStopRequested /\ ~mbNotStop

\* Stop(), called by the worker when the queue is empty.
Stop ==
  /\ pc = "Stop"
  /\ mMutexStop = "free"
  /\ IF Stop_honours
     THEN /\ mbStopped' = TRUE
          /\ pc' = "Stopped_isStopped"
          /\ Did("Stop", TRUE)
     ELSE /\ pc' = "ResetIfRequested"
          /\ Did("Stop", FALSE)
          /\ UNCHANGED mbStopped
  /\ UNCHANGED <<ctlVars, mlNewKeyFrames, mlpRecentAddedMapPoints, mpCurrentKeyFrame,
                 mbResetRequested, mbFinishRequested, mbFinished, mbAbortBA,
                 mbStopRequested, mbNotStop, mbAcceptKeyFrames, loopVars,
                 nLastDequeued>>

CheckFinish == mbFinishRequested

\* while (isStopped() && !CheckFinish()) usleep(3000);
Run_Stopped_isStopped ==
  /\ mMutexStop = "free"
  /\ IF mbStopped
     THEN Goto("Stopped_isStopped", "Stopped_CheckFinish", "isStopped", TRUE)
     ELSE Goto("Stopped_isStopped", "Stopped_exit", "isStopped", FALSE)

Run_Stopped_CheckFinish ==
  /\ mMutexFinish = "free"
  /\ IF CheckFinish
     THEN Goto("Stopped_CheckFinish", "Stopped_exit", "CheckFinish", TRUE)
     ELSE Goto("Stopped_CheckFinish", "Stopped_isStopped", "CheckFinish", FALSE)

\* if (CheckFinish()) break;
Run_Stopped_exit ==
  /\ mMutexFinish = "free"
  /\ IF CheckFinish
     THEN Goto("Stopped_exit", "SetFinish", "CheckFinish", TRUE)
     ELSE Goto("Stopped_exit", "ResetIfRequested", "CheckFinish", FALSE)

\* ResetIfRequested: under mMutexReset alone, clears the queue ...
ResetIfRequested_queue ==
  /\ pc = "ResetIfRequested"
  /\ mMutexReset = "free"
  /\ IF mbResetRequested
     THEN /\ mlNewKeyFrames' = <<>>
          /\ pc' = "Reset_clearFlag"
          /\ Did("ResetIfRequested_queue", TRUE)
     ELSE /\ pc' = "SetAcceptTrue"
          /\ Did("ResetIfRequested", FALSE)
          /\ UNCHANGED mlNewKeyFrames
  /\ UNCHANGED <<ctlVars, mlpRecentAddedMapPoints, mpCurrentKeyFrame, flags, loopVars,
                 nLastDequeued>>

\* ... then the recent-added list (which only the worker touches) and the request.
ResetIfRequested_flag ==
  /\ pc = "Reset_clearFlag"
  /\ mlpRecentAddedMapPoints' = <<>>
  /\ mbResetRequested' = FALSE
  /\ pc' = "SetAcceptTrue"
  /\ Did("ResetIfRequested", TRUE)
  /\ UNCHANGED <<ctlVars, mlNewKeyFrames, mpCurrentKeyFrame, mbFinishRequested,
                 mbFinished, mbAbortBA, stopFlags, mbAcceptKeyFrames, loopVars,
                 nLastDequeued>>

Run_SetAcceptTrue == SetAcceptKeyFrames("SetAcceptTrue", "CheckFinish", TRUE)

\* if (CheckFinish()) break; usleep(3000);
Run_CheckFinish ==
  /\ mMutexFinish = "free"
  /\ IF CheckFinish
     THEN Goto("CheckFinish", "SetFinish", "CheckFinish", TRUE)
     ELSE Goto("CheckFinish", "SetAcceptFalse", "CheckFinish", FALSE)

\* SetFinish: takes mMutexFinish and sets mbFinished ...
SetFinish_finished ==
  /\ pc = "SetFinish"
  /\ mMutexFinish = "free"
  /\ mbFinished' = TRUE
  /\ pc' = "SetFinish_lockStop"
  /\ Did("SetFinish_finished", FALSE)
  /\ UNCHANGED <<ctlVars, mlNewKeyFrames, mlpRecentAddedMapPoints, mpCurrentKeyFrame,
                 mbResetRequested, mbFinishRequested, mbAbortBA, stopFlags,
                 mbAcceptKeyFrames, loopVars, nLastDequeued>>

\* ... then mMutexStop inside it and sets mbStopped.
SetFinish_stopped ==
  /\ pc = "SetFinish_lockStop"
  /\ mMutexStop = "free"
  /\ mbStopped' = TRUE
  /\ pc' = "done"
  /\ Did("SetFinish", TRUE)
  /\ UNCHANGED <<ctlVars, mlNewKeyFrames, mlpRecentAddedMapPoints, mpCurrentKeyFrame,
                 mbResetRequested, mbFinishRequested, mbFinished, mbAbortBA,
                 mbStopRequested, mbNotStop, mbAcceptKeyFrames, loopVars,
                 nLastDequeued>>

\* ------------------------------------------------------------ specification
Worker ==
  \/ Run_start
  \/ Run_SetAcceptFalse
  \/ Run_CheckNewKeyFrames
  \/ Run_ProcessNewKeyFrame
  \/ Run_MapPointCulling
  \/ Run_CreateNewMapPoints
  \/ Run_CreateNewMapPoints_loop
  \/ Run_CheckNewKeyFrames2
  \/ Run_SearchInNeighbors
  \/ Run_SearchInNeighbors_loop
  \/ Run_ClearAbortBA
  \/ Run_CheckNewKeyFrames3
  \/ Run_stopRequested
  \/ Run_LocalBundleAdjustment
  \/ Run_KeyFrameCulling
  \/ Run_Handoff
  \/ Stop
  \/ Run_Stopped_isStopped
  \/ Run_Stopped_CheckFinish
  \/ Run_Stopped_exit
  \/ ResetIfRequested_queue
  \/ ResetIfRequested_flag
  \/ Run_SetAcceptTrue
  \/ Run_CheckFinish
  \/ SetFinish_finished
  \/ SetFinish_stopped

Tracker ==
  \/ CreateNewKeyFrame
  \/ \E flag \in BOOLEAN : SetNotStop(flag)
  \/ InterruptBA

Controller ==
  \/ RequestStop_request
  \/ RequestStop_abort
  \/ Release_lockStop
  \/ Release_lockFinish
  \/ Release_clear
  \/ Release_return
  \/ RequestReset_request
  \/ RequestReset_return
  \/ RequestFinish

Next == Worker \/ Tracker \/ Controller

Spec == Init /\ [][Next]_vars

\* A call the controlling thread has begun goes on whenever it can.
ControllerProgress ==
  \/ RequestStop_abort
  \/ Release_lockFinish
  \/ Release_clear
  \/ Release_return
  \/ RequestReset_return

\* Both threads are scheduled again and again, and a thread that keeps asking
\* for a lock gets it when the lock keeps coming free.
LiveSpec == Spec /\ SF_vars(Worker) /\ SF_vars(ControllerProgress)

\* The same threads under the same scheduling, the tracker creating fewer
\* keyframes.
Tracker_fewer ==
  \/ nNextId < MaxLiveKF /\ CreateNewKeyFrame
  \/ \E flag \in BOOLEAN : SetNotStop(flag)
  \/ InterruptBA

LiveSpecStop ==
  /\ Init
  /\ [][Worker \/ Tracker_fewer \/ Controller]_vars
  /\ SF_vars(Worker)
  /\ SF_vars(ControllerProgress)

\* --------------------------------------------------------------- map graph
\* KeyFrame, MapPoint and Map, written after spec.md (sections 3 and 4).
isBad(bad, pMP) == bad[pMP]

IsInKeyFrame(obs, pMP, pKF) == obs[pMP][pKF] # NoSlot

\* observations are unique per keyframe
AddObservation(obs, pMP, pKF, idx) ==
  IF IsInKeyFrame(obs, pMP, pKF) THEN obs ELSE [obs EXCEPT ![pMP][pKF] = idx]

Observations(obs, pMP) == Cardinality({k \in DOMAIN obs[pMP] : obs[pMP][k] # NoSlot})

AddMapPoint(kmp, pKF, idx, pMP) == [kmp EXCEPT ![pKF][idx] = pMP]

\* the bad flag is a tombstone
SetBadFlag(bad, pMP) == [bad EXCEPT ![pMP] = TRUE]

\* the non-bad map points in the slots of a keyframe
GetMapPoints(kmp, bad, pKF) ==
  {kmp[pKF][i] : i \in {j \in DOMAIN kmp[pKF] : kmp[pKF][j] # NoMP /\ ~bad[kmp[pKF][j]]}}

\* UpdateConnections recounts, from the observations of the keyframe's points,
\* the points shared with every other keyframe, and sets the edge on both ends.
SharedWith(kmp, obs, bad, pKF, k2) ==
  Cardinality({p \in GetMapPoints(kmp, bad, pKF) : obs[p][k2] # NoSlot})

UpdateConnections(conn, kmp, obs, bad, pKF) ==
  [a \in DOMAIN conn |-> [b \in DOMAIN conn |->
     IF a = pKF /\ b # pKF THEN SharedWith(kmp, obs, bad, pKF, b)
     ELSE IF b = pKF /\ a # pKF THEN SharedWith(kmp, obs, bad, pKF, a)
     ELSE conn[a][b]]]

\* the neighbours in the covisibility graph, heaviest edge first, at most N
GetVectorCovisibleKeyFrames(conn, pKF) == {k \in DOMAIN conn \ {pKF} : conn[pKF][k] > 0}

RECURSIVE OrderedConnected(_, _, _)
\* the keyframes of S, by decreasing weight of their edge to pKF, then by id
OrderedConnected(conn, pKF, S) ==
  IF S = {} THEN <<>>
  ELSE LET first == CHOOSE k \in S : \A j \in S \ {k} :
                      \/ conn[pKF][k] > conn[pKF][j]
                      \/ (conn[pKF][k] = conn[pKF][j] /\ k < j)
       IN  <<first>> \o OrderedConnected(conn, pKF, S \ {first})

GetBestCovisibilityKeyFrames(conn, pKF, N) ==
  LET all == OrderedConnected(conn, pKF, GetVectorCovisibleKeyFrames(conn, pKF))
  IN  SubSeq(all, 1, IF Len(all) < N THEN Len(all) ELSE N)

\* ------------------------------------------------------ tracker (SpecMap)
\* The tracker builds the next keyframe: each slot is empty or holds a map point
\* it matched (the same point may sit in two slots); with a stereo or RGB-D
\* sensor one slot may hold a fresh point, which the tracker has already made
\* observe the keyframe.
Tracking_BuildKeyFrame ==
  /\ nBuiltKFs = nNextId
  /\ nBuiltKFs < MaxKF
  /\ \E c \in [Slots -> {NoMP} \cup {p \in 0 .. (nNextMP - 1) : ~mpBad[p]}],
        st \in Slots \cup {NoSlot} :
       /\ st # NoSlot => (~mbMonocular /\ nNextMP < MaxMP)
       /\ IF st = NoSlot
          THEN /\ kfMapPoints' = [kfMapPoints EXCEPT ![nBuiltKFs] = c]
               /\ UNCHANGED <<mpObservations, mpFirstKFid, nNextMP>>
          ELSE /\ kfMapPoints' =
                    [kfMapPoints EXCEPT ![nBuiltKFs] = [c EXCEPT ![st] = nNextMP]]
               /\ mpObservations' = [mpObservations EXCEPT ![nNextMP][nBuiltKFs] = st]
               /\ mpFirstKFid' = [mpFirstKFid EXCEPT ![nNextMP] = nBuiltKFs]
               /\ nNextMP' = nNextMP + 1
  /\ nBuiltKFs' = nBuiltKFs + 1
  /\ lastOp' = <<"Tracking", FALSE>>
  /\ UNCHANGED <<nLocalBA, mlpLoopKeyFrameQueue, mpFoundRatio, kfBad, featVars>>
  /\ UNCHANGED <<pc, cpc, queueVars, mlpRecentAddedMapPoints, mpCurrentKeyFrame, flags,
                 loopVars, nLastDequeued, mbMonocular, mpBad, kfConnections,
                 mspKeyFrames>>

\* ... and hands it to the mapper.
Tracking_InsertKeyFrame ==
  /\ nNextId < nBuiltKFs
  /\ CreateNewKeyFrame

\* --------------------------------------------------- worker stages (SpecMap)
RECURSIVE AssociateMapPoints(_, _, _, _)
\* ProcessNewKeyFrame, lines 139-152: the slots of the keyframe in order
AssociateMapPoints(i, pKF, obs, recent) ==
  IF i >= MaxSlot THEN [obs |-> obs, recent |-> recent]
  ELSE LET pMP == kfMapPoints[pKF][i] IN
       IF pMP # NoMP /\ ~isBad(mpBad, pMP)
       THEN IF ~IsInKeyFrame(obs, pMP, pKF)
            THEN AssociateMapPoints(i + 1, pKF, AddObservation(obs, pMP, pKF, i), recent)
            ELSE AssociateMapPoints(i + 1, pKF, obs, Append(recent, pMP))
       ELSE AssociateMapPoints(i + 1, pKF, obs, recent)

ProcessNewKeyFrame ==
  /\ pc = "ProcessNewKeyFrame"
  /\ mlNewKeyFrames # <<>>
  /\ LET pKF == front(mlNewKeyFrames)
         r == AssociateMapPoints(0, pKF, mpObservations, mlpRecentAddedMapPoints)
     IN  /\ mpCurrentKeyFrame' = pKF
         /\ mlNewKeyFrames' = pop_front(mlNewKeyFrames)
         /\ nLastDequeued' = pKF
         /\ mpObservations' = r.obs
         /\ mlpRecentAddedMapPoints' = r.recent
         /\ kfConnections' = UpdateConnections(kfConnections, kfMapPoints, r.obs, mpBad, pKF)
         /\ mspKeyFrames' = mspKeyFrames \cup {pKF}
  /\ pc' = "MapPointCulling"
  /\ lastOp' = <<"ProcessNewKeyFrame", TRUE>>
  /\ nLocalBA' = 0
  /\ UNCHANGED mlpLoopKeyFrameQueue
  /\ UNCHANGED <<mpFoundRatio, kfBad, featVars>>
  /\ UNCHANGED <<ctlVars, flags, loopVars, mbMonocular, nBuiltKFs, kfMapPoints, mpBad,
                 mpFirstKFid, nNextMP>>

cnThObs == IF mbMonocular THEN 2 ELSE 3

RECURSIVE CullRecent(_, _, _, _)
\* MapPointCulling, lines 173-187; low holds the points whose found ratio is < 0.25
CullRecent(rest, bad, kept, low) ==
  IF rest = <<>> THEN [bad |-> bad, recent |-> kept]
  ELSE LET pMP == Head(rest)
           age == mpCurrentKeyFrame - mpFirstKFid[pMP]
       IN  IF isBad(bad, pMP) THEN CullRecent(Tail(rest), bad, kept, low)
           ELSE IF pMP \in low
             THEN CullRecent(Tail(rest), SetBadFlag(bad, pMP), kept, low)
           ELSE IF age >= 2 /\ Observations(mpObservations, pMP) <= cnThObs
             THEN CullRecent(Tail(rest), SetBadFlag(bad, pMP), kept, low)
           ELSE IF age >= 3 THEN CullRecent(Tail(rest), bad, kept, low)
           ELSE CullRecent(Tail(rest), bad, Append(kept, pMP), low)

\* The counters the tracker keeps per map point, as <<mnFound, mnVisible>>.
FoundRatios == {<<1, 5>>, <<1, 4>>, <<1, 1>>}

LowFoundRatio_Inclusive(fr) == 4 * fr[1] <= fr[2]

\* GetFoundRatio() < 0.25f
LowFoundRatio(fr) == 4 * fr[1] < fr[2]

\* the points of a list
Range(l) == {l[i] : i \in DOMAIN l}

\* The tracker moves the counters of the points it sees at any time: the pass
\* reads whatever they are, for the non-bad points of the list.
MapPointCulling ==
  /\ pc = "MapPointCulling"
  /\ \E fr \in [DOMAIN mpFoundRatio -> FoundRatios] :
       /\ \A p \in DOMAIN mpFoundRatio :
            (p \notin Range(mlpRecentAddedMapPoints) \/ mpBad[p]) => fr[p] = mpFoundRatio[p]
       /\ mpFoundRatio' = fr
       /\ LET low == {p \in Range(mlpRecentAddedMapPoints) : LowFoundRatio(fr[p])}
              r == CullRecent(mlpRecentAddedMapPoints, mpBad, <<>>, low)
          IN  /\ mpBad' = r.bad
              /\ mlpRecentAddedMapPoints' = r.recent
  /\ pc' = "CreateNewMapPoints"
  /\ lastOp' = <<"MapPointCulling", FALSE>>
  /\ UNCHANGED <<nLocalBA, mlpLoopKeyFrameQueue, kfBad, featVars>>
  /\ UNCHANGED <<ctlVars, mlNewKeyFrames, mpCurrentKeyFrame, flags, loopVars,
                 nLastDequeued, mbMonocular, nBuiltKFs, kfMapPoints, mpObservations,
                 mpFirstKFid, nNextMP, kfConnections, mspKeyFrames>>

nn == IF mbMonocular THEN 20 ELSE 10

\* CreateNewMapPoints, line 195
CreateNewMapPoints ==
  /\ pc = "CreateNewMapPoints"
  /\ vpNeighKFs' = GetBestCovisibilityKeyFrames(kfConnections, mpCurrentKeyFrame, nn)
  /\ iNeigh' = 0
  /\ pc' = "CreateNewMapPoints_loop"
  /\ lastOp' = <<"CreateNewMapPoints", FALSE>>
  /\ UNCHANGED <<nLocalBA, mlpLoopKeyFrameQueue>>
  /\ UNCHANGED <<ctlVars, mlNewKeyFrames, mlpRecentAddedMapPoints, mpCurrentKeyFrame,
                 flags, nLastDequeued, mapVars>>

\* lines 401-415: a triangulated point is registered in both keyframes
NewMapPoint(pKF2, idx1, idx2) ==
  /\ mpObservations' =
       AddObservation(AddObservation(mpObservations, nNextMP, mpCurrentKeyFrame, idx1),
                      nNextMP, pKF2, idx2)
  /\ kfMapPoints' =
       AddMapPoint(AddMapPoint(kfMapPoints, mpCurrentKeyFrame, idx1, nNextMP),
                   pKF2, idx2, nNextMP)
  /\ mpFirstKFid' = [mpFirstKFid EXCEPT ![nNextMP] = mpCurrentKeyFrame]
  /\ nNextMP' = nNextMP + 1
  /\ mlpRecentAddedMapPoints' = push_back(mlpRecentAddedMapPoints, nNextMP)

\* lines 219-419, one neighbour: the matcher pairs slots that hold no map point
\* yet; here at most one pair per neighbour passes the gates.
CreateNewMapPoints_neighbour ==
  /\ pc = "CreateNewMapPoints_loop"
  /\ IF iNeigh >= Len(vpNeighKFs) \/ CreateNewMapPoints_aborts
     THEN /\ pc' = "CheckNewKeyFrames2"
          /\ vpNeighKFs' = <<>>
          /\ iNeigh' = 0
          /\ lastOp' = <<"CreateNewMapPoints", iNeigh < Len(vpNeighKFs)>>
          /\ UNCHANGED <<mlpRecentAddedMapPoints, kfMapPoints, mpObservations,
                         mpFirstKFid, nNextMP>>
     ELSE /\ \/ UNCHANGED <<mlpRecentAddedMapPoints, kfMapPoints, mpObservations,
                            mpFirstKFid, nNextMP>>
             \/ /\ nNextMP < MaxMP
                /\ \E idx1, idx2 \in Slots :
                     /\ kfMapPoints[mpCurrentKeyFrame][idx1] = NoMP
                     /\ kfMapPoints[vpNeighKFs[iNeigh + 1]][idx2] = NoMP
                     /\ NewMapPoint(vpNeighKFs[iNeigh + 1], idx1, idx2)
          /\ iNeigh' = iNeigh + 1
          /\ pc' = pc
          /\ lastOp' = <<"CreateNewMapPoints_neighbour", FALSE>>
          /\ UNCHANGED vpNeighKFs
  /\ UNCHANGED <<nLocalBA, mlpLoopKeyFrameQueue, mpFoundRatio, kfBad, featVars>>
  /\ UNCHANGED <<ctlVars, mlNewKeyFrames, mpCurrentKeyFrame, flags, nLastDequeued,
                 mbMonocular, nBuiltKFs, mpBad, kfConnections, mspKeyFrames>>

RECURSIVE FuseTargets(_, _, _, _)
\* SearchInNeighbors, lines 429-444: first-order neighbours are marked with the
\* id of the current keyframe, the second-order ones they bring in are not.
FuseTargets(neigh, i, marked, vpTargetKFs) ==
  IF i > Len(neigh) THEN vpTargetKFs
  ELSE LET pKFi == neigh[i] IN
       IF kfBad[pKFi] \/ pKFi \in marked
       THEN FuseTargets(neigh, i + 1, marked, vpTargetKFs)
       ELSE LET second == GetBestCovisibilityKeyFrames(kfConnections, pKFi, 5)
                keep(pKFi2) == /\ ~kfBad[pKFi2]
                               /\ pKFi2 \notin (marked \cup {pKFi})
                               /\ pKFi2 # mpCurrentKeyFrame
            IN  FuseTargets(neigh, i + 1, marked \cup {pKFi},
                            vpTargetKFs \o <<pKFi>> \o SelectSeq(second, keep))

\* The matcher's Fuse, one projection of pMP on slot idx of pKF: an empty slot
\* gets the point and the observation; a slot with another point keeps the one
\* of the two with more observations, which takes the other's place everywhere.
Replace(g, loser, winner) ==
  [kmp |-> [k \in DOMAIN g.kmp |-> [j \in DOMAIN g.kmp[k] |->
              IF g.obs[loser][k] = j /\ g.kmp[k][j] = loser
              THEN (IF IsInKeyFrame(g.obs, winner, k) THEN NoMP ELSE winner)
              ELSE g.kmp[k][j]]],
   obs |-> [g.obs EXCEPT ![winner] = [k \in DOMAIN g.obs[winner] |->
              IF /\ g.obs[winner][k] = NoSlot
                 /\ g.obs[loser][k] # NoSlot
                 /\ g.kmp[k][g.obs[loser][k]] = loser
              THEN g.obs[loser][k] ELSE g.obs[winner][k]]],
   bad |-> SetBadFlag(g.bad, loser)]

Fuse(g, pKF, pMP, idx) ==
  LET pMPinKF == g.kmp[pKF][idx] IN
  IF pMPinKF = NoMP
  THEN [kmp |-> AddMapPoint(g.kmp, pKF, idx, pMP),
        obs |-> AddObservation(g.obs, pMP, pKF, idx),
        bad |-> g.bad]
  ELSE IF isBad(g.bad, pMPinKF) THEN g
  ELSE IF Observations(g.obs, pMPinKF) > Observations(g.obs, pMP)
       THEN Replace(g, pMP, pMPinKF)
       ELSE Replace(g, pMPinKF, pMP)

\* the projections Fuse may accept: a non-bad point the keyframe does not hold
Fusable(g, pKF, vpMapPoints) ==
  {pMP \in vpMapPoints : ~isBad(g.bad, pMP) /\ ~IsInKeyFrame(g.obs, pMP, pKF)}

\* SearchInNeighbors, lines 422-492; at most one projection is accepted here.
SearchInNeighbors ==
  /\ pc = "SearchInNeighbors"
  /\ LET vpNeigh == GetBestCovisibilityKeyFrames(kfConnections, mpCurrentKeyFrame, nn)
         vpTargetKFs == FuseTargets(vpNeigh, 1, {}, <<>>)
         targets == {vpTargetKFs[i] : i \in DOMAIN vpTargetKFs}
         g == [kmp |-> kfMapPoints, obs |-> mpObservations, bad |-> mpBad]
         vpMapPointMatches == GetMapPoints(kfMapPoints, mpBad, mpCurrentKeyFrame)
         vpFuseCandidates == UNION {GetMapPoints(kfMapPoints, mpBad, t) : t \in targets}
         fwd == UNION {{Fuse(g, t, pMP, idx) : pMP \in Fusable(g, t, vpMapPointMatches),
                                               idx \in Slots} : t \in targets}
         bwd == {Fuse(g, mpCurrentKeyFrame, pMP, idx) :
                   pMP \in Fusable(g, mpCurrentKeyFrame, vpFuseCandidates), idx \in Slots}
     IN  \E h \in {g} \cup fwd \cup bwd :
           /\ kfMapPoints' = h.kmp
           /\ mpObservations' = h.obs
           /\ mpBad' = h.bad
           /\ kfConnections' =
                UpdateConnections(kfConnections, h.kmp, h.obs, h.bad, mpCurrentKeyFrame)
  /\ pc' = "ClearAbortBA"
  /\ lastOp' = <<"SearchInNeighbors", FALSE>>
  /\ UNCHANGED <<nLocalBA, mlpLoopKeyFrameQueue, mpFoundRatio, kfBad, featVars>>
  /\ UNCHANGED <<ctlVars, mlNewKeyFrames, mlpRecentAddedMapPoints, mpCurrentKeyFrame,
                 flags, loopVars, nLastDequeued, mbMonocular, nBuiltKFs, mpFirstKFid,
                 nNextMP, mspKeyFrames>>

\* ------------------------------------------------------- KeyFrameCulling
\* KeyFrame::mThDepth, the close-point depth threshold
mThDepth == 1

thObs == 3

\* lines 598-606: the slot holds a non-bad point and, with a depth sensor, a
\* close one
CountedSlot(pKF, i) ==
  /\ kfMapPoints[pKF][i] # NoMP
  /\ ~isBad(mpBad, kfMapPoints[pKF][i])
  /\ mbMonocular \/ ~(kfDepth[pKF][i] > mThDepth \/ kfDepth[pKF][i] < 0)

\* lines 607-625: the point of the slot is seen by thObs other keyframes in the
\* same or a finer scale
RedundantSlot(pKF, i) ==
  LET pMP == kfMapPoints[pKF][i]
      scaleLevel == kfOctave[pKF][i]
      nObs == Cardinality({pKFi \in DOMAIN mpObservations[pMP] \ {pKF} :
                             /\ mpObservations[pMP][pKFi] # NoSlot
                             /\ kfOctave[pKFi][mpObservations[pMP][pKFi]] <= scaleLevel + 1})
  IN  Observations(mpObservations, pMP) > thObs /\ nObs >= thObs

nMPs(pKF) == Cardinality({i \in DOMAIN kfMapPoints[pKF] : CountedSlot(pKF, i)})

nRedundantObservations(pKF) ==
  Cardinality({i \in DOMAIN kfMapPoints[pKF] : CountedSlot(pKF, i) /\ RedundantSlot(pKF, i)})

TooRedundant_AtLeast(nRedundant, n) == 10 * nRedundant >= 9 * n

\* nRedundantObservations > 0.9*nMPs
TooRedundant(nRedundant, n) == 10 * nRedundant > 9 * n

\* KeyFrame::SetBadFlag after spec.md 4.4: the keyframe leaves the map's
\* iteration, its observations are detached from its map points, and it stays
\* as a tombstone.
KeyFrame_SetBadFlag(pKF) ==
  /\ kfBad' = [kfBad EXCEPT ![pKF] = TRUE]
  /\ mspKeyFrames' = mspKeyFrames \ {pKF}
  /\ mpObservations' = [p \in DOMAIN mpObservations |-> [mpObservations[p] EXCEPT ![pKF] = NoSlot]]

\* line 585
KeyFrameCulling ==
  /\ pc = "KeyFrameCulling"
  /\ vpNeighKFs' = GetBestCovisibilityKeyFrames(kfConnections, mpCurrentKeyFrame,
                                                Cardinality(DOMAIN kfConnections))
  /\ iNeigh' = 0
  /\ pc' = "KeyFrameCulling_loop"
  /\ lastOp' = <<"KeyFrameCulling", FALSE>>
  /\ UNCHANGED <<ctlVars, mlNewKeyFrames, mlpRecentAddedMapPoints, mpCurrentKeyFrame,
                 flags, nLastDequeued, nLocalBA, mlpLoopKeyFrameQueue, mapVars>>

\* lines 587-633, one local keyframe
KeyFrameCulling_neighbour ==
  /\ pc = "KeyFrameCulling_loop"
  /\ IF iNeigh >= Len(vpNeighKFs)
     THEN /\ pc' = "Handoff"
          /\ vpNeighKFs' = <<>>
          /\ iNeigh' = 0
          /\ lastOp' = <<"KeyFrameCulling", TRUE>>
          /\ UNCHANGED <<kfBad, mspKeyFrames, mpObservations>>
     ELSE /\ LET pKF == vpNeighKFs[iNeigh + 1] IN
             IF pKF # 0 /\ TooRedundant(nRedundantObservations(pKF), nMPs(pKF))
             THEN /\ KeyFrame_SetBadFlag(pKF)
                  /\ lastOp' = <<"KeyFrameCulling_neighbour", TRUE>>
             ELSE /\ UNCHANGED <<kfBad, mspKeyFrames, mpObservations>>
                  /\ lastOp' = <<"KeyFrameCulling_neighbour", FALSE>>
          /\ iNeigh' = iNeigh + 1
          /\ pc' = pc
          /\ UNCHANGED vpNeighKFs
  /\ UNCHANGED <<ctlVars, mlNewKeyFrames, mlpRecentAddedMapPoints, mpCurrentKeyFrame,
                 flags, nLastDequeued, nLocalBA, mlpLoopKeyFrameQueue, mbMonocular,
                 nBuiltKFs, kfMapPoints,
                 mpBad, mpFirstKFid, mpFoundRatio, nNextMP, kfConnections, featVars>>

\* ------------------------------------------------- specification (map graph)
MapInit ==
  /\ mbMonocular \in BOOLEAN
  /\ EmptyMap
  /\ InitControl

MapWorker ==
  \/ Run_start
  \/ Run_SetAcceptFalse
  \/ Run_CheckNewKeyFrames
  \/ ProcessNewKeyFrame
  \/ MapPointCulling
  \/ CreateNewMapPoints
  \/ CreateNewMapPoints_neighbour
  \/ Run_CheckNewKeyFrames2
  \/ SearchInNeighbors
  \/ Run_ClearAbortBA
  \/ Run_CheckNewKeyFrames3
  \/ Run_stopRequested
  \/ Run_LocalBundleAdjustment
  \/ KeyFrameCulling
  \/ KeyFrameCulling_neighbour
  \/ Run_Handoff
  \/ Stop
  \/ ResetIfRequested_queue
  \/ Run_SetAcceptTrue
  \/ Run_CheckFinish

MapTracker ==
  \/ Tracking_BuildKeyFrame
  \/ Tracking_InsertKeyFrame

MapNext == MapWorker \/ MapTracker

SpecMap == MapInit /\ [][MapNext]_vars

\* ------------------------------------------- specification (one culling pass)
\* The worker has dequeued keyframe N and stands before MapPointCulling. The map
\* is drawn: MaxMP map points, point p sitting in slot p of the keyframes that
\* observe it (keyframes up to N, its first one among them), some of them bad,
\* and a recent-added list over them (a point may be listed twice).
CullingInit ==
  /\ mbMonocular \in BOOLEAN
  /\ mpCurrentKeyFrame \in 0 .. MaxKF
  /\ nLastDequeued = mpCurrentKeyFrame
  /\ nNextId = mpCurrentKeyFrame + 1
  /\ nBuiltKFs = nNextId
  /\ mspKeyFrames = 0 .. mpCurrentKeyFrame
  /\ nNextMP = MaxMP
  /\ mpFirstKFid \in [MPIds -> 0 .. mpCurrentKeyFrame]
  /\ mpBad \in [MPIds -> BOOLEAN]
  /\ mpFoundRatio = [p \in MPIds |-> <<1, 1>>]
  /\ \E observers \in [MPIds -> SUBSET (0 .. mpCurrentKeyFrame)] :
       /\ \A p \in MPIds : mpFirstKFid[p] \in observers[p]
       /\ mpObservations =
            [p \in MPIds |-> [k \in MapKFIds |-> IF k \in observers[p] THEN p ELSE NoSlot]]
       /\ kfMapPoints =
            [k \in MapKFIds |-> [i \in Slots |->
               IF i \in MPIds /\ k \in observers[i] THEN i ELSE NoMP]]
  /\ kfConnections =
       [a \in MapKFIds |-> [b \in MapKFIds |->
          IF a = b THEN 0
          ELSE Cardinality({p \in MPIds : ~mpBad[p] /\ mpObservations[p][a] # NoSlot
                                           /\ mpObservations[p][b] # NoSlot})]]
  /\ kfBad = [k \in MapKFIds |-> FALSE]
  /\ kfOctave = [k \in MapKFIds |-> [i \in Slots |-> 0]]
  /\ kfDepth = [k \in MapKFIds |-> [i \in Slots |-> 0]]
  /\ mlpRecentAddedMapPoints \in UNION {[1 .. n -> MPIds] : n \in 0 .. MaxMP}
  /\ pc = "MapPointCulling"
  /\ cpc = "idle"
  /\ mlNewKeyFrames = <<>>
  /\ mbResetRequested = FALSE
  /\ mbFinishRequested = FALSE
  /\ mbFinished = FALSE
  /\ mbAbortBA = TRUE
  /\ mbStopped = FALSE
  /\ mbStopRequested = FALSE
  /\ mbNotStop = FALSE
  /\ mbAcceptKeyFrames = FALSE
  /\ vpNeighKFs = <<>>
  /\ iNeigh = 0
  /\ nLocalBA = 0
  /\ mlpLoopKeyFrameQueue = <<>>
  /\ lastOp = <<"ProcessNewKeyFrame", TRUE>>

SpecCulling == CullingInit /\ [][MapPointCulling]_vars

\* -------------------------------------- specification (keyframe culling)
\* A pass of KeyFrameCulling over a drawn map of the keyframes 0 .. K*, the
\* point p in slot p of its observers.  Point 0 is drawn freely: its observers,
\* its octave in each of them, its depth, its bad flag.  The points 1 .. nPad
\* are seen by every keyframe at octave 0 and close; the others by nobody.
Octaves == {0, 1, 2}
Depths == {-1, 0, mThDepth, mThDepth + 1}
NoOctave == -1

KFCullingInit ==
  /\ mbMonocular \in BOOLEAN
  /\ mpCurrentKeyFrame \in 1 .. (MaxMapKF - 1)
  /\ nLastDequeued = mpCurrentKeyFrame
  /\ nNextId = mpCurrentKeyFrame + 1
  /\ nBuiltKFs = nNextId
  /\ mspKeyFrames = 0 .. mpCurrentKeyFrame
  /\ nNextMP = MaxMapMP
  /\ mpFirstKFid = [p \in MapMPIds |-> 0]
  /\ mpFoundRatio = [p \in MapMPIds |-> <<1, 1>>]
  /\ \E oct \in [0 .. mpCurrentKeyFrame -> Octaves \cup {NoOctave}],
        d \in Depths, b \in BOOLEAN,
        nPad \in {0, MaxMapMP - 2, MaxMapMP - 1} :
       LET sees(k, p) == /\ k <= mpCurrentKeyFrame
                         /\ IF p = 0 THEN oct[k] # NoOctave ELSE p <= nPad
       IN  /\ mbMonocular => d = -1
           /\ mpBad = [p \in MapMPIds |-> p = 0 /\ b]
           /\ mpObservations =
                [p \in MapMPIds |-> [k \in MapKFIds |-> IF sees(k, p) THEN p ELSE NoSlot]]
           /\ kfMapPoints =
                [k \in MapKFIds |-> [i \in MapMPIds |-> IF sees(k, i) THEN i ELSE NoMP]]
           /\ kfOctave =
                [k \in MapKFIds |-> [i \in MapMPIds |-> IF i = 0 /\ sees(k, 0) THEN oct[k] ELSE 0]]
           /\ kfDepth =
                [k \in MapKFIds |-> [i \in MapMPIds |->
                   IF mbMonocular THEN -1 ELSE IF i = 0 THEN d ELSE 0]]
  /\ kfConnections =
       [a \in MapKFIds |-> [c \in MapKFIds |->
          IF a = c THEN 0
          ELSE Cardinality({p \in MapMPIds : ~mpBad[p] /\ mpObservations[p][a] # NoSlot
                                              /\ mpObservations[p][c] # NoSlot})]]
  /\ kfBad = [k \in MapKFIds |-> FALSE]
  /\ mlpRecentAddedMapPoints = <<>>
  /\ pc = "KeyFrameCulling"
  /\ cpc = "idle"
  /\ mlNewKeyFrames = <<>>
  /\ mbResetRequested = FALSE
  /\ mbFinishRequested = FALSE
  /\ mbFinished = FALSE
  /\ mbAbortBA = FALSE
  /\ mbStopped = FALSE
  /\ mbStopRequested = FALSE
  /\ mbNotStop = FALSE
  /\ mbAcceptKeyFrames = FALSE
  /\ vpNeighKFs = <<>>
  /\ iNeigh = 0
  /\ nLocalBA = 0
  /\ mlpLoopKeyFrameQueue = <<>>
  /\ lastOp = <<"KeyFramesInMap", FALSE>>

SpecKFCulling == KFCullingInit /\ [][KeyFrameCulling \/ KeyFrameCulling_neighbour]_vars

\* ------------------------------------------------------------------ claims
\* The worker is between the start of Run and the exit from its loop.
Running ==
  pc \notin {"Run_start", "SetFinish", "SetFinish_lockStop", "done", "crashed"}

QueueIncreasing ==
  /\ \A i \in 1 .. Len(mlNewKeyFrames) : mlNewKeyFrames[i] > nLastDequeued
  /\ \A i, j \in 1 .. Len(mlNewKeyFrames) : i < j => mlNewKeyFrames[i] < mlNewKeyFrames[j]

\* C1: keyframes are processed in enqueue order. The queue holds the pending
\* keyframes oldest first, and every keyframe ProcessNewKeyFrame takes from it is
\* the oldest one pending; with the tracker's increasing ids, each id taken is
\* larger than every id taken before.
C1_QueueOrder ==
  [][ /\ QueueIncreasing'
      /\ (pc = "ProcessNewKeyFrame" /\ pc' # pc /\ mlNewKeyFrames # <<>>) =>
           /\ mpCurrentKeyFrame' = mlNewKeyFrames[1]
           /\ mpCurrentKeyFrame' > nLastDequeued
           /\ mlNewKeyFrames' = Tail(mlNewKeyFrames) ]_vars

\* A second keyframe has been taken while a third, enqueued later, is waiting.
C1_Witness ==
  /\ lastOp = <<"ProcessNewKeyFrame", TRUE>>
  /\ mpCurrentKeyFrame = 1
  /\ mlNewKeyFrames = <<2>>

\* C2: InsertKeyFrame(K) appends K at the tail of the queue and sets the abort
\* flag in the same step, whatever the state (it is enabled in every state in
\* which the tracker has a keyframe to give), and changes nothing else.
C2_InsertKeyFrame ==
  [][ /\ (nNextId < MaxKF) => ENABLED CreateNewKeyFrame
      /\ (lastOp' = <<"InsertKeyFrame", FALSE>>) =>
           /\ mlNewKeyFrames' = Append(mlNewKeyFrames, nNextId)
           /\ mbAbortBA'
           /\ UNCHANGED <<mbStopped, mbStopRequested, mbNotStop, mbAcceptKeyFrames,
                          mbResetRequested, mbFinishRequested, mbFinished,
                          mlpRecentAddedMapPoints>> ]_vars

\* A keyframe was appended behind another while the mapper was stopped and
\* not accepting keyframes.
C2_Witness ==
  /\ lastOp = <<"InsertKeyFrame", FALSE>>
  /\ Len(mlNewKeyFrames) = 2
  /\ mbStopped
  /\ ~mbAcceptKeyFrames
  /\ mbAbortBA

\* C3: Stop() sets stopped and returns true exactly when a stop is requested
\* and not-stop is clear; otherwise it returns false and leaves stopped,
\* stop-requested and not-stop as they were.
C3_Stop ==
  [][ (pc = "Stop" /\ pc' # pc) =>
        IF mbStopRequested /\ ~mbNotStop
        THEN /\ mbStopped'
             /\ lastOp' = <<"Stop", TRUE>>
             /\ UNCHANGED <<mbStopRequested, mbNotStop>>
        ELSE /\ lastOp' = <<"Stop", FALSE>>
             /\ UNCHANGED <<mbStopped, mbStopRequested, mbNotStop>> ]_vars

\* Stop() has just refused a requested stop because of the not-stop flag.
C3_Witness ==
  /\ lastOp = <<"Stop", FALSE>>
  /\ mbStopRequested
  /\ mbNotStop
  /\ ~mbStopped

SetNotStopContract ==
  /\ (lastOp' = <<"SetNotStop", FALSE>>) => (mbStopped /\ UNCHANGED mbNotStop)
  /\ (lastOp' = <<"SetNotStop", TRUE>>) => (mbNotStop' => ~mbStopped)

\* C4 as stated: SetNotStop(true) is refused (false, flag unchanged) when the
\* mapper is stopped and otherwise sets the flag and returns true; not-stop and
\* stopped are never both true.
C4_NeverBoth ==
  [][ SetNotStopContract /\ ~(mbNotStop' /\ mbStopped') ]_vars

\* C4 amended: the same, but not-stop and stopped are never both true only as
\* long as the worker has not left Run: SetFinish sets stopped whatever the
\* not-stop flag says.
C4_NeverBothUntilFinish ==
  [][ SetNotStopContract /\ ((mbNotStop' /\ mbStopped') => pc' = "done") ]_vars

\* The tracker holds the veto and the worker has just refused a requested stop.
C4_Witness ==
  /\ lastOp = <<"Stop", FALSE>>
  /\ mbNotStop
  /\ mbStopRequested
  /\ ~mbStopped
  /\ Running

\* C5 as stated: whenever Release() returns, the queue is empty and stopped and
\* stop-requested are false.
C5_ReleasePost ==
  [][ (lastOp' \in {<<"Release", TRUE>>, <<"Release", FALSE>>}) =>
        /\ mlNewKeyFrames' = <<>>
        /\ ~mbStopped'
        /\ ~mbStopRequested' ]_vars

\* C5 amended: Release() does nothing when mbFinished is set (before Run has
\* started and after the worker has left it). Otherwise the queue is empty at the
\* step of Release() that clears it, and stopped and stop-requested are false
\* (and mbFinished still false) when Release() returns.
C5_ReleaseUnlessFinished ==
  [][ /\ (cpc = "Release_lockFinish" /\ cpc' = "idle") =>
           (mbFinished /\ UNCHANGED <<mlNewKeyFrames, flags>>)
      /\ (cpc = "Release_lockFinish" /\ cpc' = "Release_clear") => ~mbFinished
      /\ (cpc = "Release_clear" /\ cpc' # cpc) => mlNewKeyFrames' = <<>>
      /\ (lastOp' = <<"Release", TRUE>>) =>
           (~mbStopped' /\ ~mbStopRequested' /\ ~mbFinished') ]_vars

\* Release() has returned while the worker sat in its stopped wait.
C5_Witness ==
  /\ lastOp = <<"Release", TRUE>>
  /\ pc \in {"Stopped_isStopped", "Stopped_CheckFinish"}
  /\ ~mbStopped
  /\ ~mbStopRequested
  /\ mlNewKeyFrames = <<>>
  /\ nNextId > 0

\* C6: at the step that clears the reset request, the queue and the
\* recent-added list are both empty.
C6_ResetClearsAll ==
  [][ (mbResetRequested /\ ~mbResetRequested') =>
        (mlNewKeyFrames' = <<>> /\ mlpRecentAddedMapPoints' = <<>>) ]_vars

\* C7: a RequestReset() called while the worker is running returns, as long as
\* the worker stays in its loop (stopped or not, with keyframes pending or not).
C7_ResetReturns ==
  [](((lastOp = <<"RequestReset_request", FALSE>>) /\ Running)
       => <>(cpc = "idle" \/ ~Running))

\* C8: once finish is requested while the worker is running, the worker leaves
\* Run with finished and stopped set (a crash of the worker apart); and finished
\* is false all the time the worker is inside its loop.
C8_Termination ==
  /\ []((mbFinishRequested /\ Running)
         => <>((pc = "done" /\ mbFinished /\ mbStopped) \/ pc = "crashed"))
  /\ [](Running => ~mbFinished)


\* A Local Mapping stage has completed: the worker is not between two
\* neighbours of CreateNewMapPoints or of KeyFrameCulling.
StageCompleted == pc \notin {"CreateNewMapPoints_loop", "KeyFrameCulling_loop"}

ObservationsPointBack ==
  \A p \in 0 .. (nNextMP - 1) : \A k \in KFIds :
    (~mpBad[p] /\ mpObservations[p][k] # NoSlot) => kfMapPoints[k][mpObservations[p][k]] = p

SlotsRecorded ==
  \A k \in mspKeyFrames : \A i \in Slots :
    (kfMapPoints[k][i] # NoMP /\ ~mpBad[kfMapPoints[k][i]])
      => mpObservations[kfMapPoints[k][i]][k] = i

\* C9: after every completed stage, every observation (k, i) of a non-bad map
\* point p has p in slot i of k, and every slot of an ingested keyframe that
\* holds a non-bad point p is in p's observations with that slot.
C9_ObservationSymmetry == StageCompleted => (ObservationsPointBack /\ SlotsRecorded)

SharedMapPoints(k1, k2) ==
  GetMapPoints(kfMapPoints, mpBad, k1) \cap GetMapPoints(kfMapPoints, mpBad, k2)

\* C10: after every completed stage, the weight of every covisibility edge
\* between two keyframes of the map is the number of non-bad map points the two
\* keyframes share.
C10_CovisibilityConsistency ==
  StageCompleted =>
    \A k1, k2 \in mspKeyFrames :
      (k1 # k2 /\ kfConnections[k1][k2] > 0)
        => kfConnections[k1][k2] = Cardinality(SharedMapPoints(k1, k2))

\* The step is an invocation of Optimizer::LocalBundleAdjustment.
LocalBAInvoked == pc = "LocalBA" /\ lastOp'[1] = "LocalBundleAdjustment"

\* C11: local bundle adjustment is invoked only when the check made after the
\* fusion stage found the queue empty and no stop requested, and the map holds
\* more than two keyframes; with two keyframes or fewer it is not invoked; and it
\* is invoked at most once per processed keyframe (per call of
\* ProcessNewKeyFrame).
C11_LocalBA ==
  [][ /\ (pc' = "stopRequested" /\ pc # pc') =>
           (pc = "CheckNewKeyFrames3" /\ mlNewKeyFrames = <<>>)
      /\ (pc' = "LocalBA" /\ pc # pc') => (pc = "stopRequested" /\ ~mbStopRequested)
      /\ (lastOp'[1] = "LocalBundleAdjustment") => (pc = "LocalBA" /\ KeyFramesInMap > 2)
      /\ (pc = "LocalBA" /\ pc' # pc /\ KeyFramesInMap <= 2) => ~LocalBAInvoked
      /\ LocalBAInvoked => nLocalBA = 0 ]_vars

\* The third keyframe has been processed and adjusted.
C11_Witness ==
  /\ lastOp[1] = "LocalBundleAdjustment"
  /\ mspKeyFrames = {0, 1, 2}
  /\ mpCurrentKeyFrame = 2
  /\ nLocalBA = 1
  /\ ~mbStopRequested

\* The rule of MapPointCulling that a point of the list meets first, from the
\* state before the pass and the counters the pass reads.
CullingRule(p) ==
  LET age == mpCurrentKeyFrame - mpFirstKFid[p]
      tau == IF mbMonocular THEN 2 ELSE 3
      obs == Cardinality({k \in DOMAIN mpObservations[p] : mpObservations[p][k] # NoSlot})
  IN  IF mpBad[p] THEN "bad"
      ELSE IF 4 * mpFoundRatio'[p][1] < mpFoundRatio'[p][2] THEN "ratio"
      ELSE IF age >= 2 /\ obs <= tau THEN "observations"
      ELSE IF age >= 3 THEN "old"
      ELSE "stays"

CullingStays(p) == CullingRule(p) = "stays"

\* C12: each point of the recent-added list meets the first matching rule: bad
\* -> removed; found ratio < 0.25 (0.25 itself does not match) -> marked bad
\* and removed; N - N0 >= 2 with at most tau observations -> marked bad and
\* removed; N - N0 >= 3 -> removed, not marked; otherwise it stays. After the
\* pass the points left are non-bad with found ratio >= 0.25 and N - N0 < 3,
\* and no point outside the list has been marked bad.
C12_MapPointCulling ==
  [][ (pc = "MapPointCulling" /\ pc' # pc) =>
        /\ mlpRecentAddedMapPoints' = SelectSeq(mlpRecentAddedMapPoints, CullingStays)
        /\ \A p \in MPIds :
             mpBad'[p] = (mpBad[p] \/ (/\ p \in Range(mlpRecentAddedMapPoints)
                                      /\ CullingRule(p) \in {"ratio", "observations"}))
        /\ \A p \in Range(mlpRecentAddedMapPoints') :
             /\ ~mpBad'[p]
             /\ 4 * mpFoundRatio'[p][1] >= mpFoundRatio'[p][2]
             /\ mpCurrentKeyFrame - mpFirstKFid[p] < 3
        /\ \A p \in MPIds \ Range(mlpRecentAddedMapPoints) : mpBad'[p] = mpBad[p]
        /\ UNCHANGED <<mpObservations, kfMapPoints, kfConnections>> ]_vars

\* A pass has kept a point whose found ratio is exactly 0.25 and dropped, without
\* marking it, a well-observed point first seen three keyframes ago.
C12_Witness ==
  /\ lastOp = <<"MapPointCulling", FALSE>>
  /\ mlpRecentAddedMapPoints = <<0>>
  /\ mpFoundRatio[0] = <<1, 4>>
  /\ ~mpBad[0]
  /\ ~mpBad[1]
  /\ mpCurrentKeyFrame - mpFirstKFid[1] = 3
  /\ Cardinality({k \in MapKFIds : mpObservations[1][k] # NoSlot}) = 4

\* The map points K holds that count for its redundancy: non-bad and, with a
\* depth sensor, at a depth in [0, mThDepth].
CountedPoints(K) ==
  {p \in DOMAIN mpObservations :
     \E i \in DOMAIN kfMapPoints[K] :
        /\ kfMapPoints[K][i] = p
        /\ ~mpBad[p]
        /\ mbMonocular \/ (kfDepth[K][i] >= 0 /\ kfDepth[K][i] <= mThDepth)}

\* At least 3 keyframes other than K observe p at an octave <= K's octave for
\* p, plus one.
RedundantPoint(K, p) ==
  LET o == kfOctave[K][CHOOSE i \in DOMAIN kfMapPoints[K] : kfMapPoints[K][i] = p]
  IN  Cardinality({k \in DOMAIN kfBad \ {K} :
                     /\ mpObservations[p][k] # NoSlot
                     /\ kfOctave[k][mpObservations[p][k]] <= o + 1}) >= 3

MostlyRedundant(K) ==
  10 * Cardinality({p \in CountedPoints(K) : RedundantPoint(K, p)})
     > 9 * Cardinality(CountedPoints(K))

FiveOverlapping ==
  /\ mpCurrentKeyFrame \in {4, 5}
  /\ \E i \in DOMAIN kfMapPoints[0] : kfMapPoints[0][i] # NoMP
  /\ \A k \in 0 .. 4 :
       /\ kfMapPoints[k] = kfMapPoints[0]
       /\ kfOctave[k] = kfOctave[0]
       /\ \A i \in DOMAIN kfMapPoints[k] :
            kfMapPoints[k][i] # NoMP =>
              /\ ~mpBad[kfMapPoints[k][i]]
              /\ mbMonocular \/ (kfDepth[k][i] >= 0 /\ kfDepth[k][i] <= mThDepth)

CullingPassDone == lastOp = <<"KeyFrameCulling", TRUE>>

\* C14: when five keyframes, the root among them, all observe the same points
\* at the same octave, a pass of KeyFrameCulling leaves the 4 non-root
\* keyframes marked bad and the root keyframe not marked.
C14_FiveOverlapping ==
  (CullingPassDone /\ FiveOverlapping) =>
     (~kfBad[0] /\ \A k \in 1 .. 4 : kfBad[k])

\* The pass of keyframe 4 over the five overlapping keyframes is over: 1 and 2
\* are marked, 3 has been examined and is not, its points being left with the
\* observers 0, 3 and 4.
C14_Witness ==
  /\ CullingPassDone /\ FiveOverlapping
  /\ mpCurrentKeyFrame = 4
  /\ \A k \in DOMAIN kfBad : kfBad[k] <=> k \in {1, 2}
  /\ \A p \in 1 .. (MaxMapMP - 1) :
       {k \in DOMAIN kfBad : mpObservations[p][k] # NoSlot} = {0, 3, 4}

\* The worker is inside the pipeline of a keyframe.
InPipeline ==
  pc \in {"ProcessNewKeyFrame", "MapPointCulling", "CreateNewMapPoints",
          "CreateNewMapPoints_loop", "CheckNewKeyFrames2", "SearchInNeighbors",
          "SearchInNeighbors_loop",
          "ClearAbortBA", "CheckNewKeyFrames3", "stopRequested", "LocalBA",
          "KeyFrameCulling", "KeyFrameCulling_loop", "Handoff"}

\* The worker sits in the wait of a stopped mapper.
StoppedWait == pc \in {"Stopped_isStopped", "Stopped_CheckFinish"}

\* The worker is in its loop, outside the pipeline and outside the stopped wait.
Idle == Running /\ ~InPipeline /\ ~StoppedWait /\ pc # "Stopped_exit"

FreshStopFlags == ~mbStopped /\ ~mbStopRequested /\ ~mbNotStop

\* C16: when RequestReset has returned, with nothing enqueued or staged since
\* the reset, the mapper shows what a freshly constructed running mapper
\* shows: empty queue, empty recent-added list, and stopped, stop-requested and
\* not-stop clear, so that the next keyframe goes through the same stages.
C16_ResetEquivalence ==
  (lastOp = <<"RequestReset", TRUE>> /\ ~InPipeline
     /\ mlNewKeyFrames = <<>> /\ mlpRecentAddedMapPoints = <<>>)
    => FreshStopFlags

\* RequestReset has returned to a running mapper whose stop request is still
\* pending: the next keyframe will skip local BA and KeyFrameCulling.
C16_Witness ==
  /\ lastOp = <<"RequestReset", TRUE>>
  /\ Idle
  /\ mlNewKeyFrames = <<>> /\ mlpRecentAddedMapPoints = <<>>
  /\ mbStopRequested /\ ~mbNotStop /\ ~mbStopped
  /\ nNextId < MaxKF

\* The keyframe the worker has taken last has gone to the loop closer.
LastDequeuedDelivered ==
  \/ nLastDequeued = NullKF
  \/ /\ mlpLoopKeyFrameQueue # <<>>
     /\ mlpLoopKeyFrameQueue[Len(mlpLoopKeyFrameQueue)] = nLastDequeued

\* C17: with a loop closer attached, every keyframe taken by ProcessNewKeyFrame
\* goes to the loop closer exactly once, as the last step of the pipeline of
\* the same iteration, whichever stages were skipped, and in the order taken;
\* no keyframe that was never taken goes to it.  The handoff step delivers the
\* keyframe taken last, which has not been delivered before; outside the
\* pipeline the keyframe taken last is the one delivered last; the deliveries
\* are in increasing order of id.
C17_Handoff ==
  /\ [][(Len(mlpLoopKeyFrameQueue') # Len(mlpLoopKeyFrameQueue)) =>
          /\ pc = "Handoff" /\ ~InPipeline'
          /\ mlpLoopKeyFrameQueue' = Append(mlpLoopKeyFrameQueue, nLastDequeued)
          /\ nLastDequeued # NullKF
          /\ \A i \in 1 .. Len(mlpLoopKeyFrameQueue) :
               mlpLoopKeyFrameQueue[i] < nLastDequeued]_vars
  /\ []((~InPipeline /\ pc # "crashed") => LastDequeuedDelivered)

\* Two keyframes have gone to the loop closer, the second after an iteration
\* that skipped fusion, local BA and culling.
C17_Witness ==
  /\ mlpLoopKeyFrameQueue = <<0, 1>>
  /\ lastOp = <<"Handoff", FALSE>>
  /\ nLastDequeued = 1
  /\ mbAbortBA
  /\ mlNewKeyFrames = <<2>>

\* The worker is between the end of one iteration and the start of the next,
\* or has not started Run.
BetweenIterations == pc \in {"Run_start", "CheckFinish", "SetAcceptFalse"}

\* The worker handles a reset request.
InResetHandling == pc \in {"ResetIfRequested", "Reset_clearFlag"}

\* The worker has left its loop.
LeftLoop == pc \in {"SetFinish", "SetFinish_lockStop", "done"}

\* C18 as stated: AcceptKeyFrames() is false whenever the worker is inside the
\* pipeline or the reset handling and whenever the mapper is stopped, and true
\* only between two iterations or before Run starts.
C18_AcceptGate ==
  /\ (InPipeline \/ InResetHandling \/ mbStopped) => ~mbAcceptKeyFrames
  /\ mbAcceptKeyFrames => BetweenIterations

\* C18 amended: the same as long as the worker is in its loop; once the worker
\* has left the loop through the finish check that follows
\* SetAcceptKeyFrames(true), AcceptKeyFrames() stays true, also after SetFinish
\* has set stopped.
C18_AcceptGateUntilFinish ==
  /\ (InPipeline \/ InResetHandling) => ~mbAcceptKeyFrames
  /\ (mbStopped /\ ~LeftLoop) => ~mbAcceptKeyFrames
  /\ mbAcceptKeyFrames => (BetweenIterations \/ LeftLoop)

\* The mapper is stopped with a keyframe waiting, the worker in its wait, and
\* the gate is closed.
C18_Witness ==
  /\ mbStopped /\ StoppedWait
  /\ ~mbAcceptKeyFrames
  /\ mlNewKeyFrames # <<>>
  /\ mlpLoopKeyFrameQueue # <<>>

\* The step triangulates against a neighbour.
Triangulates == pc = "CreateNewMapPoints_loop" /\ lastOp'[1] = "CreateNewMapPoints_neighbour"

\* While a keyframe is waiting, the rest of the iteration runs neither fusion
\* nor local BA nor keyframe culling, and the next iteration takes the keyframe
\* that waits first.
WaitingSkipsToNext ==
  /\ (pc = "CheckNewKeyFrames2" /\ pc' # pc /\ mlNewKeyFrames # <<>>) => pc' = "ClearAbortBA"
  /\ (pc = "CheckNewKeyFrames3" /\ pc' # pc /\ mlNewKeyFrames # <<>>) => pc' = "Handoff"
  /\ pc' = "SearchInNeighbors" => (pc = "SearchInNeighbors" \/ mlNewKeyFrames = <<>>)
  /\ pc' \in {"LocalBA", "KeyFrameCulling"} =>
        (pc \in {"LocalBA", "KeyFrameCulling", "stopRequested"})
  /\ pc' = "stopRequested" => (pc = "stopRequested" \/ mlNewKeyFrames = <<>>)
  /\ (pc = "CheckNewKeyFrames" /\ pc' # pc /\ mlNewKeyFrames # <<>>) =>
        pc' = "ProcessNewKeyFrame"
  /\ (pc = "ProcessNewKeyFrame" /\ pc' # pc /\ mlNewKeyFrames # <<>>) =>
        (mpCurrentKeyFrame' = Head(mlNewKeyFrames) /\ mlNewKeyFrames' = Tail(mlNewKeyFrames))

\* C19 as stated: CreateNewMapPoints looks at the queue before each neighbour,
\* so it triangulates against no neighbour while a keyframe is waiting, and
\* returns instead; the iteration then skips fusion, local BA and keyframe
\* culling, and the next iteration takes the waiting keyframe.
C19_AbortTriangulation ==
  [][/\ Triangulates => mlNewKeyFrames = <<>>
     /\ (pc = "CreateNewMapPoints_loop" /\ pc' # pc /\ mlNewKeyFrames # <<>>
           /\ iNeigh < Len(vpNeighKFs)) => lastOp' = <<"CreateNewMapPoints", TRUE>>
     /\ WaitingSkipsToNext]_vars

\* C19 amended: the queue is looked at before each neighbour but the first, so
\* the first neighbour is triangulated against whether or not a keyframe is
\* waiting; before any later neighbour a waiting keyframe makes the pass
\* return.  The rest holds as long as the keyframe keeps waiting.
C19_AbortTriangulationAfterFirst ==
  [][/\ (Triangulates /\ iNeigh > 0) => mlNewKeyFrames = <<>>
     /\ (pc = "CreateNewMapPoints_loop" /\ pc' # pc /\ mlNewKeyFrames # <<>>
           /\ iNeigh > 0 /\ iNeigh < Len(vpNeighKFs)) => lastOp' = <<"CreateNewMapPoints", TRUE>>
     /\ WaitingSkipsToNext]_vars

\* The pass has just returned before its second neighbour, keyframe 1 waiting.
C19_Witness ==
  /\ lastOp = <<"CreateNewMapPoints", TRUE>>
  /\ pc = "CheckNewKeyFrames2"
  /\ mpCurrentKeyFrame = 0
  /\ mlNewKeyFrames = <<1>>

\* The step fuses into a target keyframe.
FusesTarget == pc = "SearchInNeighbors_loop" /\ lastOp'[1] = "SearchInNeighbors_target"

\* C20: SearchInNeighbors looks at the queue between its outer iterations: it
\* fuses into no target keyframe after the first while a keyframe is waiting,
\* and returns with the remaining targets left instead.
C20_AbortFusion ==
  [][/\ (FusesTarget /\ iNeigh > 0) => mlNewKeyFrames = <<>>
     /\ (pc = "SearchInNeighbors_loop" /\ pc' # pc /\ mlNewKeyFrames # <<>>
           /\ iNeigh > 0 /\ iNeigh < Len(vpNeighKFs)) => lastOp' = <<"SearchInNeighbors", TRUE>>]_vars

\* The fusion pass of keyframe 0 has fused into its second target although
\* keyframe 1 was waiting.
C20_Witness ==
  /\ lastOp = <<"SearchInNeighbors_target", FALSE>>
  /\ iNeigh = 2
  /\ mpCurrentKeyFrame = 0
  /\ mlNewKeyFrames = <<1>>

\* C21: the abort-BA flag, once set, is not cleared inside the pipeline of a
\* keyframe: a step that clears it is taken by the worker at the start of an
\* iteration, before ProcessNewKeyFrame, so a signal raised during
\* triangulation or fusion reaches the local BA of the same iteration.
C21_AbortMonotonic ==
  [][(mbAbortBA /\ ~mbAbortBA') => (~InPipeline /\ ~InPipeline')]_vars

\* InterruptBA has just been called during the fusion pass of the third
\* keyframe of the map, the queue empty and no stop requested: local BA is
\* about to run in this iteration.
C21_Witness ==
  /\ lastOp = <<"InterruptBA", FALSE>>
  /\ pc = "SearchInNeighbors_loop"
  /\ mbAbortBA
  /\ mlNewKeyFrames = <<>>
  /\ ~mbStopRequested
  /\ KeyFramesInMap > 2

\* The operations that touch mlNewKeyFrames or write mbAbortBA inside a
\* unique_lock of mMutexNewKFs: InsertKeyFrame (118), CheckNewKeyFrames (125),
\* ProcessNewKeyFrame (132) and RequestStop (516).  Release (548-552),
\* ResetIfRequested (661), InterruptBA (577) and line 81 of Run take no such lock.
mMutexNewKFs_holders ==
  {"InsertKeyFrame", "CheckNewKeyFrames", "ProcessNewKeyFrame", "RequestStop"}

\* C22: every step that changes the incoming queue or the abort-BA flag is a
\* step of an operation that holds the queue lock while it does so.
C22_QueueLockDiscipline ==
  [][(mlNewKeyFrames' # mlNewKeyFrames \/ mbAbortBA' # mbAbortBA)
       => lastOp'[1] \in mMutexNewKFs_holders]_vars

\* The worker is about to take the front of the queue under the queue lock
\* while Release, holding only the stop and finish locks, is about to delete
\* and clear the same list.
C22_Witness ==
  /\ pc = "ProcessNewKeyFrame"
  /\ cpc = "Release_clear"
  /\ mlNewKeyFrames # <<>>

\* The worker is inside Run and none of its steps can be taken: it waits for
\* a lock another thread holds.
WorkerWaits == pc \notin {"done", "crashed"} /\ ~ENABLED Worker

\* The controlling thread is inside a call and cannot go on with it.
ControllerWaits == cpc # "idle" /\ ~ENABLED ControllerProgress

\* C23: no interleaving of the worker (SetFinish included) with RequestStop,
\* Release, SetNotStop, RequestReset and RequestFinish reaches a state where
\* the worker and the controlling thread each wait for the other.
C23_DeadlockFree == ~(WorkerWaits /\ ControllerWaits)

\* SetFinish holds the finish lock and asks for the stop lock while Release
\* holds the stop lock and asks for the finish lock.
C23_Witness ==
  /\ pc = "SetFinish_lockStop"
  /\ mMutexFinish = "worker"
  /\ cpc = "Release_lockFinish"
  /\ mMutexStop = "ctl"

\* C24: with keyframes pending at the top of the iteration the worker goes on
\* to ProcessNewKeyFrame, and at the step where Stop() sets the stopped flag
\* the incoming queue is empty.
C24_StopOnEmptyQueue ==
  [][ /\ (pc = "CheckNewKeyFrames" /\ pc' # pc /\ mlNewKeyFrames # <<>>)
           => pc' = "ProcessNewKeyFrame"
      /\ (lastOp' = <<"Stop", TRUE>> /\ pc = "Stop")
           => (mbStopped' /\ mlNewKeyFrames' = <<>>) ]_vars

\* Stop() has just honoured a stop request while a keyframe, inserted after
\* the emptiness check of line 66, waits in the queue.
C24_Witness ==
  /\ lastOp = <<"Stop", TRUE>>
  /\ pc = "Stopped_isStopped"
  /\ mbStopped
  /\ mlNewKeyFrames # <<>>

\* vpTargetKFs as SearchInNeighbors builds it for the current keyframe.
FusionTargets ==
  FuseTargets(GetBestCovisibilityKeyFrames(kfConnections, mpCurrentKeyFrame, nn), 1, {}, <<>>)

\* C25: when the worker enters SearchInNeighbors, the target list it builds
\* holds no keyframe twice, does not hold the current keyframe and holds no
\* bad keyframe.
C25_FusionTargetSet ==
  pc = "SearchInNeighbors" =>
    /\ \A i, j \in DOMAIN FusionTargets : i # j => FusionTargets[i] # FusionTargets[j]
    /\ \A i \in DOMAIN FusionTargets :
         FusionTargets[i] # mpCurrentKeyFrame /\ ~kfBad[FusionTargets[i]]

\* The worker enters SearchInNeighbors with a current keyframe that has two
\* first-order neighbours which are neighbours of each other.
C25_Witness ==
  /\ pc = "SearchInNeighbors"
  /\ \E a, b \in mspKeyFrames \ {mpCurrentKeyFrame} :
       /\ a # b
       /\ kfConnections[mpCurrentKeyFrame][a] > 0
       /\ kfConnections[mpCurrentKeyFrame][b] > 0
       /\ kfConnections[a][b] > 0
       /\ ~kfBad[a] /\ ~kfBad[b]

\* The steps of a Release() call.
ReleaseSteps == {"Release_lock", "Release_flags", "Release_clear", "Release"}

\* C26: once the worker has left Run through SetFinish, the finished and the
\* stopped flag are true and stay true whatever is called afterwards, and a
\* step of Release() in that state changes no flag and leaves the queue alone.
C26_FinishedAbsorbing ==
  [][pc = "done" =>
       /\ mbFinished /\ mbStopped
       /\ pc' = "done" /\ mbFinished' /\ mbStopped'
       /\ (lastOp'[1] \in ReleaseSteps => UNCHANGED <<flags, mlNewKeyFrames>>)]_vars

\* After the worker has exited, Release() has been called and has returned
\* with a keyframe still in the queue and the stop request still pending.
C26_Witness ==
  /\ pc = "done"
  /\ lastOp = <<"Release", FALSE>>
  /\ mlNewKeyFrames # <<>>
  /\ mbStopRequested
  /\ mbFinished /\ mbStopped

\* C27: at the step where ProcessNewKeyFrame takes the front of the incoming
\* queue, the queue is not empty: what CheckNewKeyFrames saw at the top of the
\* iteration still holds.
C27_DequeueNonEmpty ==
  [][(pc = "ProcessNewKeyFrame" /\ pc' # pc) => mlNewKeyFrames # <<>>]_vars

\* Release has cleared the queue after the worker found it non-empty and
\* before the worker takes its front element.
C27_Witness ==
  /\ pc = "ProcessNewKeyFrame"
  /\ lastOp = <<"Release_clear", FALSE>>
  /\ mlNewKeyFrames = <<>>

=============================================================================
